---- MODULE Spec2Model ----
(***************************************************************************)
(* blogger2hugomd, script.js: a Blogger XML export is read, parsed,        *)
(* filtered to posts, and every post is written as a Markdown file; a      *)
(* summary with the number of accumulated posts is written at the end.     *)
(*                                                                         *)
(* Text is modelled as a sequence of one-character strings, so that the    *)
(* regular-expression replacements of getFileName are computed and not     *)
(* assumed.                                                                *)
(***************************************************************************)
EXTENDS Integers, Sequences, FiniteSets, TLC

VARIABLES
  pc,          \* position of the script / of bloggerImport
  argvLen,     \* process.argv.length
  feed,        \* result.feed.entry, the parsed entries in feed order
  posts,       \* const posts (line 70)
  i,           \* index in posts of the next entry the for-loop takes (line 79)
  stats,       \* stats.posts (line 10)
  dirCreated,  \* mkdir of the output directory succeeded in this run
  inflight,    \* fs.promises.writeFile calls issued and not yet settled
  files,       \* Markdown files written by this run: file name -> content
  wlog,        \* history: the settled writes, in the order they settled
  skipped,     \* history: indices of posts dropped at line 90
  summaryFile, \* history: the contents written to migration-summary.json
  exitCode,    \* exit status of the process (0 unless process.exit(1) ran)
  faults,      \* history: what the environment made fail in this run
  fnText,      \* getFileName: argument of the last call
  fnRaw,       \* getFileName: what the sanitize step returned in the last call
  fnOut        \* getFileName: result of the last call

vars == <<pc, argvLen, feed, posts, i, stats, dirCreated, inflight, files, wlog,
          skipped, summaryFile, exitCode, faults, fnText, fnRaw, fnOut>>

fnVars == <<fnText, fnRaw, fnOut>>

----------------------------------------------------------------------------
(* Bounds *)

\* longest feed the parser returns
MaxEntries == 3

\* largest process.argv.length tried (node, script, file, dir, [m|s])
MaxArgv == 5

\* longest text given to getFileName in SpecSan
MaxLen == 3

(* Program constants *)

\* process.argv.length < 4
MinArgv == 4

----------------------------------------------------------------------------
(* Text helpers: what the String methods used by the script do *)

Range(s) == {s[k] : k \in 1..Len(s)}

\* the rest of s after its leading run of characters of S
RECURSIVE SkipRun(_, _)
SkipRun(s, S) ==
  IF s # <<>> /\ Head(s) \in S THEN SkipRun(Tail(s), S) ELSE s

\* s without its trailing run of characters of S
RECURSIVE DropTrailing(_, _)
DropTrailing(s, S) ==
  IF s # <<>> /\ s[Len(s)] \in S THEN DropTrailing(SubSeq(s, 1, Len(s) - 1), S) ELSE s

\* s without any character of S
RECURSIVE RemoveChars(_, _)
RemoveChars(s, S) ==
  IF s = <<>> THEN <<>>
  ELSE IF Head(s) \in S THEN RemoveChars(Tail(s), S)
  ELSE <<Head(s)>> \o RemoveChars(Tail(s), S)

\* the character class of /[<>:"/\\|?*]+/
InvalidChars == {"<", ">", ":", "\"", "/", "\\", "|", "?", "*"}

Hyphen == "-"

\* what String.prototype.trim removes (of the characters modelled)
Whitespace == {" "}

\* the cased letters of the model's alphabet: upper-case -> lower-case
UpperCase == {"A", "U"}

LowerChar(c) ==
  IF c = "A" THEN "a" ELSE IF c = "U" THEN "u" ELSE c

\* .replace(/[<>:"/\\|?*]+/g, '-'): every maximal run of invalid characters
\* becomes one hyphen
RECURSIVE ReplaceInvalid(_)
ReplaceInvalid(s) ==
  IF s = <<>> THEN <<>>
  ELSE IF Head(s) \in InvalidChars
       THEN <<Hyphen>> \o ReplaceInvalid(SkipRun(Tail(s), InvalidChars))
       ELSE <<Head(s)>> \o ReplaceInvalid(Tail(s))

\* a bug: the hyphen runs are left as they are
CollapseHyphensNot(s) == s

\* .replace(/[-]{2,}/g, '-'): every run of two or more hyphens becomes one
RECURSIVE CollapseHyphens(_)
CollapseHyphens(s) ==
  IF s = <<>> THEN <<>>
  ELSE IF Head(s) = Hyphen /\ Len(s) >= 2 /\ s[2] = Hyphen
       THEN <<Hyphen>> \o CollapseHyphens(SkipRun(s, {Hyphen}))
       ELSE <<Head(s)>> \o CollapseHyphens(Tail(s))

\* .trim()
Trim(s) == DropTrailing(SkipRun(s, Whitespace), Whitespace)

\* .toLowerCase()
ToLowerCase(s) == [k \in 1..Len(s) |-> LowerChar(s[k])]

\* the chain applied to the result of sanitize(text), lines 42-45
FileNameChain(raw) ==
  ToLowerCase(Trim(CollapseHyphens(ReplaceInvalid(raw))))

\* sanitize-filename (external): illegal characters are removed, then a
\* trailing run of dots and spaces
Sanitize(text) ==
  DropTrailing(RemoveChars(text, InvalidChars), {".", " "})

\* getFileName(text)
getFileName(text) == FileNameChain(Sanitize(text))

\* .replace(/'/g, "''")
RECURSIVE EscapeQuotes(_)
EscapeQuotes(s) ==
  IF s = <<>> THEN <<>>
  ELSE IF Head(s) = "'" THEN <<"'", "'">> \o EscapeQuotes(Tail(s))
  ELSE <<Head(s)>> \o EscapeQuotes(Tail(s))

----------------------------------------------------------------------------
(* The parsed export: entries as xml2js returns them *)

\* tokens of an entry identifier; '.post-' is the marker line 71 looks for
IdPost123 == <<"tag:blogger.com,1999:blog-1", ".post-", "123">>
IdPost456 == <<"tag:blogger.com,1999:blog-1", ".post-", "456">>
IdPage789 == <<"tag:blogger.com,1999:blog-1", ".page-", "789">>

\* the category term that marks an entry as a post (line 52)
KindPost == "http://schemas.google.com/blogger/2008/kind#post"

\* An entry.  hasId, hasTitle, hasPublished: the entry has the element
\* (entry.id, entry.title, entry.published is an array).  replyTo:
\* entry['thr:in-reply-to'] is present.  titleText: << >> when title[0] has
\* no '_', else <<text>>.  content: << >> when there is no content[0]['_'],
\* else <<html>>.  draft: app:control/app:draft is 'yes'.
PostA ==
  [hasId |-> TRUE, id |-> IdPost123, replyTo |-> FALSE, hasTitle |-> TRUE,
   hasPublished |-> TRUE,
   titleText |-> << <<"A">> >>, published |-> "2020-01-01", draft |-> FALSE,
   category |-> <<KindPost, "travel", "food">>, content |-> <<"<p>x</p>">>]

\* a second post whose title gives the same file name as PostA's
PostLowerA ==
  [PostA EXCEPT !.id = IdPost456, !.titleText = << <<"a">> >>,
                !.published = "2021-02-02", !.draft = TRUE,
                !.category = <<KindPost>>, !.content = << >>]

\* a comment: a '.post-' identifier and a reply-to reference
CommentB == [PostLowerA EXCEPT !.replyTo = TRUE]

\* a page
PageC == [PostA EXCEPT !.id = IdPage789]

\* posts whose title is the empty string, has no text, is a hyphen, is made
\* of characters sanitize removes
PostEmptyTitle == [PostA EXCEPT !.titleText = << << >> >>]
PostNoTitleText == [PostLowerA EXCEPT !.titleText = << >>]
PostHyphen == [PostA EXCEPT !.titleText = << <<"-", "-">> >>]
PostQuestion == [PostLowerA EXCEPT !.titleText = << <<"?">> >>]

\* an entry without a title element: entry.title[0] throws a TypeError
PostNoTitleElem == [PostA EXCEPT !.hasTitle = FALSE, !.titleText = << >>]

\* a post without a published element: entry.published[0] throws
PostNoPublished == [PostLowerA EXCEPT !.hasPublished = FALSE]

\* an entry without an id element: entry.id[0] throws in the filter
EntryNoId == [PageC EXCEPT !.hasId = FALSE]

EntryUniverse ==
  {PostA, PostLowerA, CommentB, PageC, PostEmptyTitle, PostNoTitleText,
   PostHyphen, PostQuestion, PostNoTitleElem, PostNoPublished, EntryNoId}

\* feed.entry is present, so the feed holds at least one entry
Feeds == UNION {[1..n -> EntryUniverse] : n \in 1..MaxEntries}

ArgvLens == 2..MaxArgv

Untitled == <<"U", "n", "t", "i", "t", "l", "e", "d">>

----------------------------------------------------------------------------
(* bloggerImport: the pure parts *)

\* a bug: comments are taken for posts
IsPostIgnoringReply(entry) == ".post-" \in Range(entry.id)

\* the predicate of contents.filter, lines 70-73
IsPost(entry) == ".post-" \in Range(entry.id) /\ ~entry.replyTo

FilterPosts(contents) == SelectSeq(contents, IsPost)

\* a bug: a ?? b, the default taken only for a missing value
NullishDefault(opt, default) ==
  IF opt = << >> THEN default ELSE opt[1]

\* a || b on an optional string: the default is taken for undefined and
\* for the empty string, both falsy
OrDefault(opt, default) ==
  IF opt = << >> \/ opt[1] = << >> THEN default ELSE opt[1]

\* entry.title[0]['_']?.replace(/'/g, "''") || 'Untitled', line 80
DeriveTitle(entry) ==
  OrDefault(IF entry.titleText = << >> THEN << >>
            ELSE <<EscapeQuotes(entry.titleText[1])>>, Untitled)

\* entry.id[0].split('-').pop(), line 81: the identifiers modelled end in
\* a token without a hyphen, which is the last segment
PostIdOf(entry) == entry.id[Len(entry.id)]

\* a bug: the post is counted only once its file name was found usable
PushedIfUsable(st, title, postId, sanitizedTitle) ==
  IF sanitizedTitle = << >> \/ sanitizedTitle = <<Hyphen>> THEN st
  ELSE Append(st, [title |-> title, id |-> postId])

\* stats.posts.push({ title, id: postId }), line 82, before getFileName
Pushed(st, title, postId, sanitizedTitle) ==
  Append(st, [title |-> title, id |-> postId])

\* a bug: only the empty name is refused
UnusableEmptyOnly(sanitizedTitle) == sanitizedTitle = << >>

\* !sanitizedTitle || sanitizedTitle === '-', line 90
Unusable(sanitizedTitle) ==
  sanitizedTitle = << >> \/ sanitizedTitle = <<Hyphen>>

\* extractTags, lines 49-55
extractTags(entry) == SelectSeq(entry.category, LAMBDA term : term # KindPost)

\* tds.turndown (external) on the bodies modelled
Turndown(html) == IF html = "<p>x</p>" THEN "x" ELSE html

\* fileHeader, a blank line and the markdown, lines 95-106, as a record of
\* the parts the text is made of
FileContent(entry, title) ==
  [title |-> title, date |-> entry.published, draft |-> entry.draft,
   tags |-> extractTags(entry),
   body |-> Turndown(IF entry.content = << >> THEN "" ELSE entry.content[1])]

\* path.join(outputDir, `${sanitizedTitle}.md`), relative to outputDir
FileNameOf(sanitizedTitle) == sanitizedTitle \o <<".md">>

\* a bug: flag 'wx', an existing file is kept
WrittenIfAbsent(fs, name, content) ==
  IF name \in DOMAIN fs THEN fs
  ELSE [n \in DOMAIN fs \cup {name} |-> IF n = name THEN content ELSE fs[n]]

\* fs.promises.writeFile(filename, content, 'utf8') that succeeds: the file
\* is created or replaced
Written(fs, name, content) ==
  [n \in DOMAIN fs \cup {name} |-> IF n = name THEN content ELSE fs[n]]

\* a bug: the loop goes on without awaiting the write
LoopMayResumeAlways(pending) == TRUE

\* await writeToFile(...), line 106: the loop resumes once the write settled
LoopMayResume(pending) == pending = {}

\* a bug: writeToFile without its try/catch
WriteErrorPropagates == FALSE

\* the catch of writeToFile, lines 121-123
WriteErrorCaught == TRUE

\* a bug: ensureDirectoryExists without its try/catch
MkdirErrorPropagates == FALSE

\* the catch of ensureDirectoryExists, lines 34-36
MkdirErrorCaught == TRUE

----------------------------------------------------------------------------
(* The run *)

Init ==
  /\ pc = "start"
  /\ argvLen \in ArgvLens
  /\ feed = << >>
  /\ posts = << >>
  /\ i = 1
  /\ stats = << >>
  /\ dirCreated = FALSE
  /\ inflight = {}
  /\ files = << >>
  /\ wlog = << >>
  /\ skipped = {}
  /\ summaryFile = << >>
  /\ exitCode = 0
  /\ faults = {}
  /\ fnText = << >>
  /\ fnRaw = << >>
  /\ fnOut = << >>

\* the catch of bloggerImport, lines 110-113, and process.exit(1)
Fatal(fault) ==
  /\ faults' = faults \cup {fault}
  /\ pc' = "exited"
  /\ exitCode' = 1

\* a bug: the usage branch without process.exit(1)
ArgCheckNoExit ==
  /\ pc = "start"
  /\ pc' = "read"
  /\ UNCHANGED <<argvLen, feed, posts, i, stats, dirCreated, inflight, files, wlog,
                 skipped, summaryFile, exitCode, faults, fnVars>>

\* lines 22-28
ArgCheck ==
  /\ pc = "start"
  /\ IF argvLen < MinArgv
     THEN pc' = "exited" /\ exitCode' = 1
     ELSE pc' = "read" /\ UNCHANGED exitCode
  /\ UNCHANGED <<argvLen, feed, posts, i, stats, dirCreated, inflight, files, wlog,
                 skipped, summaryFile, faults, fnVars>>

\* await fs.promises.readFile(backupXmlFile), line 62
ReadOk ==
  /\ pc = "read"
  /\ pc' = "parse"
  /\ UNCHANGED <<argvLen, feed, posts, i, stats, dirCreated, inflight, files, wlog,
                 skipped, summaryFile, exitCode, faults, fnVars>>

ReadFail ==
  /\ pc = "read"
  /\ Fatal("read")
  /\ UNCHANGED <<argvLen, feed, posts, i, stats, dirCreated, inflight, files, wlog,
                 skipped, summaryFile, fnVars>>

\* parser.parseStringPromise(data) rejects, line 63
ParseFail ==
  /\ pc = "parse"
  /\ Fatal("parse")
  /\ UNCHANGED <<argvLen, feed, posts, i, stats, dirCreated, inflight, files, wlog,
                 skipped, summaryFile, fnVars>>

\* !result.feed?.entry, lines 65-67
FormatFail ==
  /\ pc = "parse"
  /\ Fatal("format")
  /\ UNCHANGED <<argvLen, feed, posts, i, stats, dirCreated, inflight, files, wlog,
                 skipped, summaryFile, fnVars>>

\* lines 63-75: the export parses, feed.entry is present, the posts are
\* filtered
ParseOk ==
  /\ pc = "parse"
  /\ \E f \in Feeds :
       /\ \A k \in 1..Len(f) : f[k].hasId
       /\ feed' = f
       /\ posts' = FilterPosts(f)
  /\ pc' = "mkdir"
  /\ UNCHANGED <<argvLen, i, stats, dirCreated, inflight, files, wlog,
                 skipped, summaryFile, exitCode, faults, fnVars>>

\* lines 63-71: the export parses, an entry has no id element and
\* entry.id[0] throws a TypeError in the filter, caught at 110
FilterThrows ==
  /\ pc = "parse"
  /\ \E f \in Feeds :
       /\ \E k \in 1..Len(f) : ~f[k].hasId
       /\ feed' = f
  /\ Fatal("entry")
  /\ UNCHANGED <<argvLen, posts, i, stats, dirCreated, inflight, files, wlog,
                 skipped, summaryFile, fnVars>>

\* await ensureDirectoryExists(outputDir), line 77, mkdir succeeds
MkdirOk ==
  /\ pc = "mkdir"
  /\ dirCreated' = TRUE
  /\ pc' = "loop"
  /\ UNCHANGED <<argvLen, feed, posts, i, stats, inflight, files, wlog,
                 skipped, summaryFile, exitCode, faults, fnVars>>

\* mkdir rejects; lines 34-36 log the error
MkdirFail ==
  /\ pc = "mkdir"
  /\ IF MkdirErrorCaught
     THEN /\ faults' = faults \cup {"mkdir"}
          /\ pc' = "loop"
          /\ UNCHANGED exitCode
     ELSE Fatal("mkdir")
  /\ UNCHANGED <<argvLen, feed, posts, i, stats, dirCreated, inflight, files, wlog,
                 skipped, summaryFile, fnVars>>

\* line 80 on an entry without a title element: a TypeError, caught at 110
ProcessPostThrows ==
  /\ pc = "loop"
  /\ i <= Len(posts)
  /\ LoopMayResume(inflight)
  /\ ~posts[i].hasTitle
  /\ Fatal("entry")
  /\ UNCHANGED <<argvLen, feed, posts, i, stats, dirCreated, inflight, files, wlog,
                 skipped, summaryFile, fnVars>>

\* lines 80-84 on an entry without a published element: the post is
\* pushed, then entry.published[0] throws a TypeError, caught at 110
ProcessPostThrowsPushed ==
  /\ pc = "loop"
  /\ i <= Len(posts)
  /\ LoopMayResume(inflight)
  /\ posts[i].hasTitle
  /\ ~posts[i].hasPublished
  /\ LET entry == posts[i]
         title == DeriveTitle(entry)
     IN  stats' = Pushed(stats, title, PostIdOf(entry), getFileName(title))
  /\ Fatal("entry")
  /\ UNCHANGED <<argvLen, feed, posts, i, dirCreated, inflight, files, wlog,
                 skipped, summaryFile, fnVars>>

\* lines 80-93: the post is pushed, its file name is unusable, continue
ProcessPostSkip ==
  /\ pc = "loop"
  /\ i <= Len(posts)
  /\ LoopMayResume(inflight)
  /\ posts[i].hasTitle
  /\ posts[i].hasPublished
  /\ LET entry == posts[i]
         title == DeriveTitle(entry)
         postId == PostIdOf(entry)
         sanitizedTitle == getFileName(title)
     IN  /\ Unusable(sanitizedTitle)
         /\ stats' = Pushed(stats, title, postId, sanitizedTitle)
         /\ skipped' = skipped \cup {i}
         /\ i' = i + 1
  /\ UNCHANGED <<pc, argvLen, feed, posts, dirCreated, inflight, files, wlog,
                 summaryFile, exitCode, faults, fnVars>>

\* lines 80-106: the post is pushed and its file is handed to writeFile
ProcessPostWrite ==
  /\ pc = "loop"
  /\ i <= Len(posts)
  /\ LoopMayResume(inflight)
  /\ posts[i].hasTitle
  /\ posts[i].hasPublished
  /\ LET entry == posts[i]
         title == DeriveTitle(entry)
         postId == PostIdOf(entry)
         sanitizedTitle == getFileName(title)
     IN  /\ ~Unusable(sanitizedTitle)
         /\ stats' = Pushed(stats, title, postId, sanitizedTitle)
         /\ inflight' = inflight \cup
                          {[idx |-> i, name |-> FileNameOf(sanitizedTitle),
                            content |-> FileContent(entry, title)]}
         /\ i' = i + 1
  /\ UNCHANGED <<pc, argvLen, feed, posts, dirCreated, files, wlog, skipped,
                 summaryFile, exitCode, faults, fnVars>>

\* writeFile resolves, lines 119-120; it can only in a directory that exists
WriteOk ==
  /\ pc = "loop"
  /\ dirCreated
  /\ \E req \in inflight :
       /\ files' = Written(files, req.name, req.content)
       /\ wlog' = Append(wlog, [idx |-> req.idx, ok |-> TRUE])
       /\ inflight' = inflight \ {req}
  /\ UNCHANGED <<pc, argvLen, feed, posts, i, stats, dirCreated, skipped,
                 summaryFile, exitCode, faults, fnVars>>

\* writeFile rejects, lines 121-123
WriteFail ==
  /\ pc = "loop"
  /\ \E req \in inflight :
       /\ wlog' = Append(wlog, [idx |-> req.idx, ok |-> FALSE])
       /\ inflight' = inflight \ {req}
  /\ IF WriteErrorCaught
     THEN faults' = faults \cup {"write"} /\ UNCHANGED <<pc, exitCode>>
     ELSE Fatal("write")
  /\ UNCHANGED <<argvLen, feed, posts, i, stats, dirCreated, files, skipped,
                 summaryFile, fnVars>>

\* writeSummary(), lines 109 and 127-136; the process then ends with status 0
SummaryOk ==
  /\ pc = "loop"
  /\ i > Len(posts)
  /\ LoopMayResume(inflight)
  /\ summaryFile' = Append(summaryFile, [totalPosts |-> Len(stats)])
  /\ pc' = "exited"
  /\ UNCHANGED <<argvLen, feed, posts, i, stats, dirCreated, inflight, files, wlog,
                 skipped, exitCode, faults, fnVars>>

\* fs.writeFileSync throws inside the try of bloggerImport
SummaryFail ==
  /\ pc = "loop"
  /\ i > Len(posts)
  /\ LoopMayResume(inflight)
  /\ Fatal("summary")
  /\ UNCHANGED <<argvLen, feed, posts, i, stats, dirCreated, inflight, files, wlog,
                 skipped, summaryFile, fnVars>>

Next ==
  \/ ArgCheck
  \/ ReadOk
  \/ ReadFail
  \/ ParseFail
  \/ FormatFail
  \/ ParseOk
  \/ FilterThrows
  \/ MkdirOk
  \/ MkdirFail
  \/ ProcessPostThrows
  \/ ProcessPostThrowsPushed
  \/ ProcessPostSkip
  \/ ProcessPostWrite
  \/ WriteOk
  \/ WriteFail
  \/ SummaryOk
  \/ SummaryFail

Spec == Init /\ [][Next]_vars

----------------------------------------------------------------------------
(* getFileName on its own *)

Alphabet == {"A", "a", "-", "?", "/", " ", "."}

Texts == UNION {[1..n -> Alphabet] : n \in 0..MaxLen}

InitSan ==
  /\ pc = "getFileName"
  /\ argvLen = MinArgv
  /\ feed = << >>
  /\ posts = << >>
  /\ i = 1
  /\ stats = << >>
  /\ dirCreated = FALSE
  /\ inflight = {}
  /\ files = << >>
  /\ wlog = << >>
  /\ skipped = {}
  /\ summaryFile = << >>
  /\ exitCode = 0
  /\ faults = {}
  /\ fnText = << >>
  /\ fnRaw = << >>
  /\ fnOut = << >>

\* getFileName(text) with sanitize-filename as the sanitize step
GetFileNameLib ==
  /\ pc = "getFileName"
  /\ pc' = "returned"
  /\ \E text \in Texts :
       /\ fnText' = text
       /\ fnRaw' = Sanitize(text)
       /\ fnOut' = getFileName(text)
  /\ UNCHANGED <<argvLen, feed, posts, i, stats, dirCreated, inflight, files, wlog,
                 skipped, summaryFile, exitCode, faults>>

\* getFileName(text) with a sanitize step that returns its argument as it
\* is: every text reaches the chain of lines 42-45
GetFileNameAny ==
  /\ pc = "getFileName"
  /\ pc' = "returned"
  /\ \E text \in Texts :
       /\ fnText' = text
       /\ fnRaw' = text
       /\ fnOut' = FileNameChain(text)
  /\ UNCHANGED <<argvLen, feed, posts, i, stats, dirCreated, inflight, files, wlog,
                 skipped, summaryFile, exitCode, faults>>

NextSan ==
  \/ GetFileNameLib
  \/ GetFileNameAny

SpecSan == InitSan /\ [][NextSan]_vars

----------------------------------------------------------------------------
(* Properties *)

\* the faults after which bloggerImport reaches its catch and exits 1
ImportFaults == {"read", "parse", "format", "entry"}

Ended == pc = "exited"

Completed == pc = "exited" /\ exitCode = 0

\* indices of the feed entries with the '.post-' marker and no reply-to
MarkedNonReplies ==
  {k \in 1..Len(feed) : ".post-" \in Range(feed[k].id) /\ ~feed[k].replyTo}

\* the filter of lines 70-73 ran to its end
Filtered == \A k \in 1..Len(feed) : feed[k].hasId

\* the Posts the loop has taken as far as the push of line 82
Taken ==
  IF Ended /\ i <= Len(posts) /\ posts[i].hasTitle /\ ~posts[i].hasPublished
  THEN i ELSE i - 1

\* the indices of wlog that record a write of post j
SettledOf(j) == {k \in 1..Len(wlog) : wlog[k].idx = j}

\* the file name the pushed post j sanitizes to
NameOfPost(j) == getFileName(stats[j].title) \o <<".md">>

UntitledFile == <<"u", "n", "t", "i", "t", "l", "e", "d", ".md">>

\* C1: an entry is a Post iff its identifier contains '.post-' and it has
\* no reply-to; only Posts are pushed or written; a feed of one post, one
\* comment and one page whose run completes without a failed write leaves
\* exactly one file and totalPosts = 1.
C1_PostsAreMarkedNonReplies ==
  /\ Filtered =>
       /\ \A k \in 1..Len(feed) :
            (\E j \in 1..Len(posts) : posts[j] = feed[k]) <=> k \in MarkedNonReplies
       /\ Len(posts) = Cardinality(MarkedNonReplies)
  /\ ~Filtered => posts = << >>
  /\ Len(stats) <= Cardinality(MarkedNonReplies)
  /\ \A n \in DOMAIN files :
       \E k \in MarkedNonReplies :
         files[n] = FileContent(feed[k], DeriveTitle(feed[k]))
  /\ (Completed /\ feed = <<PostA, CommentB, PageC>> /\ "write" \notin faults
        /\ "mkdir" \notin faults)
       => /\ Cardinality(DOMAIN files) = 1
          /\ summaryFile = <<[totalPosts |-> 1]>>

C1_Witness ==
  /\ Completed
  /\ feed = <<PostA, CommentB, PageC>>
  /\ DOMAIN files = {<<"a", ".md">>}
  /\ summaryFile = <<[totalPosts |-> 1]>>

\* C2: every Post the loop has taken is in the accumulator exactly once, in
\* feed order, pushed before its skip and before its write; the summary holds
\* the length of the accumulator, which is the number of Posts of the feed
\* and at least the number of files written.
C2_SummaryCountsPushedPosts ==
  /\ Len(stats) = Taken
  /\ \A j \in 1..Len(stats) :
       stats[j] = [title |-> DeriveTitle(posts[j]), id |-> PostIdOf(posts[j])]
  /\ skipped \subseteq 1..Len(stats)
  /\ \A r \in inflight : r.idx \in 1..Len(stats)
  /\ \A k \in 1..Len(wlog) : wlog[k].idx \in 1..Len(stats)
  /\ summaryFile # << >> =>
       /\ summaryFile[1].totalPosts = Len(stats)
       /\ summaryFile[1].totalPosts = Cardinality(MarkedNonReplies)
       /\ summaryFile[1].totalPosts >= Cardinality(DOMAIN files)

C2_Witness ==
  /\ summaryFile # << >>
  /\ skipped # {}
  /\ \E k \in 1..Len(wlog) : ~wlog[k].ok
  /\ summaryFile[1].totalPosts > Cardinality(DOMAIN files) + 1

\* C3 as claimed: a Post whose title is the empty string is unusable and
\* no write is made for it.
C3_EmptyTitleUnusable ==
  \A j \in 1..(i - 1) :
    posts[j].titleText = << << >> >> =>
      /\ j \in skipped
      /\ SettledOf(j) = {}
      /\ \A r \in inflight : r.idx # j

\* C3 amended: a Post whose title is the empty string gets the title
\* 'Untitled', is not skipped, and is written to untitled.md; the Posts that
\* are skipped are those whose derived title sanitizes to '' or '-'.
C3_EmptyTitleBecomesUntitled ==
  /\ \A j \in 1..(i - 1) :
       posts[j].titleText = << << >> >> =>
         /\ stats[j].title = Untitled
         /\ j \notin skipped
         /\ \/ \E r \in inflight : r.idx = j /\ r.name = UntitledFile
            \/ SettledOf(j) # {}
         /\ (\E k \in SettledOf(j) : wlog[k].ok) => UntitledFile \in DOMAIN files
  /\ \A j \in 1..(i - 1) :
       j \in skipped <=> getFileName(stats[j].title) \in {<< >>, <<"-">>}

C3_Witness ==
  /\ Completed
  /\ \E j \in 1..Len(posts) :
       /\ posts[j] = PostEmptyTitle
       /\ \E k \in SettledOf(j) : wlog[k].ok
  /\ UntitledFile \in DOMAIN files

\* C4: a Post whose sanitized file name is '' or '-' is skipped: no write is
\* issued for it, no file '.md' or '-.md' exists, and the loop goes on, so a
\* run that completes has taken every Post.
C4_UnusableNameSkipped ==
  /\ \A j \in 1..(i - 1) :
       getFileName(stats[j].title) \in {<< >>, <<"-">>} =>
         /\ j \in skipped
         /\ SettledOf(j) = {}
         /\ \A r \in inflight : r.idx # j
  /\ <<".md">> \notin DOMAIN files
  /\ <<"-", ".md">> \notin DOMAIN files
  /\ \A r \in inflight : r.name \notin {<<".md">>, <<"-", ".md">>}
  /\ (skipped # {} /\ faults \cap (ImportFaults \cup {"summary"}) = {})
       => /\ exitCode = 0
          /\ Ended => i = Len(posts) + 1

C4_Witness ==
  /\ Completed
  /\ \E j \in skipped :
       /\ stats[j].title = <<"-", "-">>
       /\ \E k \in 1..Len(wlog) : wlog[k].idx > j /\ wlog[k].ok

\* C5: a failed mkdir or a failed write never ends the run: a run whose only
\* faults are of these two kinds is still in the loop or has completed with
\* status 0, and a completed run has taken every Post, has settled a write
\* for every Post it did not skip, and has written the summary.
C5_WriteAndMkdirFailuresNotFatal ==
  /\ (argvLen >= MinArgv /\ faults \subseteq {"mkdir", "write"})
       => exitCode = 0
  /\ (faults # {} /\ faults \subseteq {"mkdir", "write"})
       => pc = "loop" \/ Completed
  /\ Completed =>
       /\ i = Len(posts) + 1
       /\ \A j \in 1..Len(posts) : j \in skipped \/ SettledOf(j) # {}
       /\ Len(summaryFile) = 1

C5_Witness ==
  /\ Completed
  /\ "mkdir" \in faults
  /\ Len(wlog) >= 2
  /\ ~wlog[1].ok
  /\ Len(summaryFile) = 1

\* C6 as claimed: the exit status is 1 exactly for a usage error, an
\* unreadable export or a malformed or unrecognised export.
C6_ExitOneOnlyUsageOrImport ==
  Ended =>
    (exitCode = 1 <=> (argvLen < MinArgv \/ faults \cap ImportFaults # {}))

\* C6 amended: the exit status is 1 exactly for a usage error, an unreadable
\* export, a malformed or unrecognised export, or a failed write of the
\* summary file; it is 0 in every other run.
C6_ExitOneAlsoOnSummaryFailure ==
  /\ exitCode \in {0, 1}
  /\ Ended =>
       (exitCode = 1 <=>
          (argvLen < MinArgv \/ faults \cap (ImportFaults \cup {"summary"}) # {}))

C6_Witness ==
  /\ Ended
  /\ exitCode = 1
  /\ "summary" \in faults
  /\ "write" \in faults

\* C7: a run that ends in a usage error or in a feed-level fatal error has
\* not created the output directory, has issued no write and has written no
\* summary.
C7_EarlyExitTouchesNothing ==
  (Ended /\ (argvLen < MinArgv \/ faults \cap {"read", "parse", "format"} # {}))
    => /\ ~dirCreated
       /\ "mkdir" \notin faults
       /\ DOMAIN files = {}
       /\ inflight = {}
       /\ wlog = << >>
       /\ summaryFile = << >>

C7_Witness ==
  /\ Ended
  /\ argvLen < MinArgv
  /\ exitCode = 1

\* C8: at most one write is pending, it is the write of the Post taken last,
\* the writes settle in feed order, and the summary is written at most once,
\* after every Post was taken and every write has settled.
C8_OnePostAtATime ==
  /\ Cardinality(inflight) <= 1
  /\ \A r \in inflight : r.idx = Len(stats)
  /\ \A k \in 1..Len(wlog) :
       /\ wlog[k].idx <= Len(stats)
       /\ k < Len(wlog) => wlog[k].idx < wlog[k + 1].idx
  /\ Len(summaryFile) <= 1
  /\ summaryFile # << >> =>
       /\ inflight = {}
       /\ Len(stats) = Len(posts)
       /\ \A j \in 1..Len(posts) : j \in skipped \/ SettledOf(j) # {}

C8_Witness ==
  /\ summaryFile # << >>
  /\ Len(wlog) >= 2
  /\ wlog[1].ok

\* C9: the result of getFileName holds no character of < > : " / \ | ? *,
\* no two hyphens in a row and no upper-case letter, whatever the sanitize
\* step returned.
C9_FileNameSafe ==
  pc = "returned" =>
    \A k \in 1..Len(fnOut) :
      /\ fnOut[k] \notin InvalidChars
      /\ fnOut[k] \notin UpperCase
      /\ k < Len(fnOut) => ~(fnOut[k] = "-" /\ fnOut[k + 1] = "-")

C9_Witness ==
  /\ pc = "returned"
  /\ fnRaw = <<"?", "-", "A">>
  /\ fnOut = <<"-", "a">>

\* the names for which some write succeeded
NamesWritten ==
  {NameOfPost(wlog[k].idx) : k \in {m \in 1..Len(wlog) : wlog[m].ok}}

\* the usable file names of the Posts
UsableNames == {NameOfPost(j) : j \in (1..Len(stats)) \ skipped}

\* every file holds the content of the last Post of that name whose write
\* succeeded
FilesHoldLastWriter ==
  /\ DOMAIN files = NamesWritten
  /\ \A n \in DOMAIN files :
       LET ks == {k \in 1..Len(wlog) : wlog[k].ok /\ NameOfPost(wlog[k].idx) = n}
           last == CHOOSE k \in ks : \A m \in ks : m <= k
           j == wlog[last].idx
       IN  files[n] = FileContent(posts[j], stats[j].title)

\* C10 as claimed: when the run completes every file holds the content of
\* the last Post of its name whose write succeeded, and there are as many
\* files as distinct usable sanitized file names.
C10_FilesEqualDistinctNames ==
  Completed =>
    /\ FilesHoldLastWriter
    /\ Cardinality(DOMAIN files) = Cardinality(UsableNames)

\* C10 amended: every file holds the content of the last Post of its name
\* whose write succeeded; there are as many files as distinct usable
\* sanitized file names with at least one successful write, which is all
\* of them when no write failed.
C10_LastSuccessfulWriterWins ==
  /\ FilesHoldLastWriter
  /\ Completed =>
       /\ DOMAIN files \subseteq UsableNames
       /\ Cardinality(DOMAIN files) <= Len(posts)
       /\ "write" \notin faults => DOMAIN files = UsableNames

C10_Witness ==
  /\ Completed
  /\ Len(wlog) = 2
  /\ wlog[1].ok
  /\ wlog[2].ok
  /\ posts = <<PostA, PostLowerA>>
  /\ DOMAIN files = {<<"a", ".md">>}
  /\ files[<<"a", ".md">>].title = <<"a">>

====
